---- MODULE Spec2Model ----
(***************************************************************************)
(* Model of kkc (src/main.py): the bounded-concurrency key scanner.        *)
(* One asyncio event loop runs one check_key task per candidate; the tasks *)
(* suspend only in the network calls and while waiting for the semaphore.  *)
(***************************************************************************)
EXTENDS Integers, Sequences, FiniteSets, TLC

(* ---------- bounds of the model ---------- *)
\* number of lines of the input file
MaxLines == 2
\* longest capability list handed to top_model
MaxModels == 3
\* largest value of --requests that is tried
MaxRequestsBound == 2

(* ---------- program constants ---------- *)
\* RATE_LIMIT_PER_MODEL.keys(), in insertion order
ModelOrder == <<"gpt-3.5-turbo", "gpt-4", "gpt-4-32k">>

Models == {ModelOrder[i] : i \in 1..Len(ModelOrder)}

RATE_LIMIT_PER_MODEL == [m \in Models |->
    IF m = "gpt-3.5-turbo" THEN 3500 ELSE IF m = "gpt-4" THEN 200 ELSE 10]

\* the keys of self.file_handles
Destinations == Models \cup {"over_quota"}

(* ---------- the input file ---------- *)
\* A line is a sequence of tokens: "junk" is text that does not match
\* oai_key_regex, the others are substrings that match it (credential strings).
Credentials == {"sk-A", "sk-B"}

Tokens == {"junk"} \cup Credentials

\* the value of a failed search (None)
NoMatch == ""

\* the lines an input file is made of
InputLines == {<<"junk">>, <<"sk-A">>, <<"junk", "sk-A">>, <<"sk-B", "sk-A">>}

RECURSIVE SeqsUpTo(_, _)
SeqsUpTo(S, n) ==
    IF n = 0 THEN {<<>>}
    ELSE LET shorter == SeqsUpTo(S, n - 1)
         IN  shorter \cup {Append(s, x) : s \in {q \in shorter : Len(q) = n - 1}, x \in S}

InputFiles == SeqsUpTo(InputLines, MaxLines)

\* oai_key_regex.search(line): the first matching substring of the line
RECURSIVE regex_search(_)
regex_search(line) ==
    IF line = <<>> THEN NoMatch
    ELSE IF Head(line) \in Credentials THEN Head(line)
    ELSE regex_search(Tail(line))

\* list(set(keys)): the distinct lines, in any order
ListOfSet(file) ==
    LET S == {file[i] : i \in 1..Len(file)}
    IN  {s \in [1..Cardinality(S) -> S] : \A i, j \in 1..Cardinality(S) : i # j => s[i] # s[j]}

\* [match.group(1) for match in (oai_key_regex.search(key) for key in keys) if match]
RECURSIVE ExtractKeys(_)
ExtractKeys(lines) ==
    IF lines = <<>> THEN <<>>
    ELSE LET m == regex_search(Head(lines))
         IN  (IF m # NoMatch THEN <<m>> ELSE <<>>) \o ExtractKeys(Tail(lines))

(* ---------- Key ---------- *)
\* org names are sequences of chunks so that startswith("user-") is computed
StartsWithUser(name) == Len(name) > 0 /\ name[1] = "user-"

OrgPersonal == [id |-> "org-1", name |-> <<"user-", "abc">>, is_default |-> TRUE]
OrgAlternate == [id |-> "org-2", name |-> <<"acme">>, is_default |-> FALSE]
OrgDefaultNamed == [id |-> "org-3", name |-> <<"corp">>, is_default |-> TRUE]

\* the "data" arrays the organizations endpoint may answer with
OrgLists == {<<>>, <<OrgPersonal>>, <<OrgDefaultNamed, OrgAlternate>>}

NewKey(key_string, models) ==
    [key_string |-> key_string, dead |-> FALSE, working |-> FALSE,
     trial_status |-> FALSE, over_quota |-> FALSE, org_name |-> <<>>,
     org_id |-> "", org_default |-> FALSE, models |-> models, ratelimit |-> 0]

SeqContains(s, x) == \E i \in 1..Len(s) : s[i] = x

RECURSIVE top_model_from(_, _)
top_model_from(models, i) ==
    IF i = 0 THEN ""
    ELSE IF SeqContains(models, ModelOrder[i]) THEN ModelOrder[i]
    ELSE top_model_from(models, i - 1)

\* a top_model that takes the last entry of the list
top_modelLastOfList(models) == IF models = <<>> THEN "" ELSE models[Len(models)]

\* Key.top_model: the first of reversed(RATE_LIMIT_PER_MODEL.keys()) found in models
top_model(models) == top_model_from(models, Len(ModelOrder))

(* ---------- get_models ---------- *)
\* the "data" arrays (model ids) the models endpoint may answer with
RawModelLists == {<<>>, <<"davinci">>, <<"gpt-3.5-turbo">>,
                  <<"gpt-4", "davinci", "gpt-3.5-turbo">>,
                  <<"gpt-4-32k", "gpt-3.5-turbo">>}

IsKnownModel(m) == m \in Models

RECURSIVE SortByTableIndex(_, _)
SortByTableIndex(s, i) ==
    IF i > Len(ModelOrder) THEN <<>>
    ELSE SelectSeq(s, LAMBDA m : m = ModelOrder[i]) \o SortByTableIndex(s, i + 1)

\* lines 94-95: filter to the table's entries, sort by position in the table
FilterAndSortModels(raw) == SortByTableIndex(SelectSeq(raw, IsKnownModel), 1)

(* ---------- the completion endpoint's answers ---------- *)
StatusCodes == {200, 400, 401, 429, 500}

ErrorTypes == {"billing_not_active", "access_terminated", "insufficient_quota",
               "invalid_request_error", "server_error"}

\* kind "nonjson": resp.json() raises; "nonobject": valid JSON that is no object
\* with an error object (data.get(...).get raises); "object": a JSON object,
\* type is its error type, "" when it has no error
Bodies == {[kind |-> "nonjson", type |-> ""], [kind |-> "nonobject", type |-> ""],
           [kind |-> "object", type |-> ""]}
          \cup {[kind |-> "object", type |-> e] : e \in ErrorTypes}

\* the x-ratelimit-limit-requests header: absent, an integer, or other text
RateLimitHeaders == {[present |-> FALSE, numeric |-> FALSE, value |-> 0],
                     [present |-> TRUE, numeric |-> FALSE, value |-> 0],
                     [present |-> TRUE, numeric |-> TRUE, value |-> 100],
                     [present |-> TRUE, numeric |-> TRUE, value |-> 3500]}

CompletionResponses == [status : StatusCodes, body : Bodies, header : RateLimitHeaders]

\* line 102: await resp.json() raises on a body that is not JSON
JsonRaises(resp) == resp.body.kind = "nonjson"

\* line 107: data.get("error", {}).get("type", "")
ErrorTypeRaises(resp) == resp.body.kind = "nonobject"

error_type_of(resp) == resp.body.type

\* line 117: int(resp.headers.get("x-ratelimit-limit-requests", "-1"))
RateLimitRaises(resp) == resp.header.present /\ ~resp.header.numeric

ratelimit_of(resp) == IF resp.header.present THEN resp.header.value ELSE -1

\* line 103
IsInvalidKey(resp) == resp.status = 401

\* line 108
IsDisabled(resp) == error_type_of(resp) \in {"billing_not_active", "access_terminated"}

\* line 111
IsOverQuota(resp) == error_type_of(resp) = "insufficient_quota"

\* line 120
IsTrial(ratelimit, model) == ratelimit < RATE_LIMIT_PER_MODEL[model]

\* a classification that forgets the rate-limited case
IsWorkingWithout429(resp) ==
    resp.status = 400 /\ error_type_of(resp) = "invalid_request_error"

\* lines 125-126
IsWorking(resp) ==
    (resp.status = 400 /\ error_type_of(resp) = "invalid_request_error") \/ resp.status = 429

\* try_completion raises instead of returning
CompletionRaises(resp) ==
    \/ JsonRaises(resp)
    \/ ~IsInvalidKey(resp) /\ ErrorTypeRaises(resp)
    \/ /\ ~IsInvalidKey(resp) /\ ~ErrorTypeRaises(resp)
       /\ ~IsDisabled(resp) /\ ~IsOverQuota(resp)
       /\ RateLimitRaises(resp)

\* classification reaches line 117
ReachesRateLimitStep(resp) ==
    /\ ~JsonRaises(resp) /\ ~IsInvalidKey(resp) /\ ~ErrorTypeRaises(resp)
    /\ ~IsDisabled(resp) /\ ~IsOverQuota(resp)

\* a try_completion that goes on to the rate limit after insufficient_quota
try_completionFallingThrough(status, model, resp) ==
    IF IsInvalidKey(resp) THEN status
    ELSE IF IsDisabled(resp) THEN status
    ELSE LET ratelimit == ratelimit_of(resp)
         IN  [status EXCEPT !.over_quota = IF IsOverQuota(resp) THEN TRUE ELSE @,
                            !.ratelimit = ratelimit,
                            !.trial_status = IF IsTrial(ratelimit, model) THEN TRUE ELSE @,
                            !.working = IF IsWorking(resp) THEN TRUE ELSE @]

\* try_completion(status, model) when it returns: the Key after the call
try_completion(status, model, resp) ==
    IF IsInvalidKey(resp) THEN status
    ELSE IF IsDisabled(resp) THEN status
    ELSE IF IsOverQuota(resp) THEN [status EXCEPT !.over_quota = TRUE]
    ELSE LET ratelimit == ratelimit_of(resp)
         IN  [status EXCEPT !.ratelimit = ratelimit,
                            !.trial_status = IF IsTrial(ratelimit, model) THEN TRUE ELSE @,
                            !.working = IF IsWorking(resp) THEN TRUE ELSE @]

(* ---------- write_key_to_file ---------- *)
\* "gpt-4" in top_model_name
ContainsGpt4(name) == name \in {"gpt-4", "gpt-4-32k"}

\* lines 156-166: the annotations, each a sequence of text chunks
Addons(status, top_model_name) ==
    (IF ~StartsWithUser(status.org_name)
     THEN IF status.org_default
          THEN << <<"org '">> \o status.org_name \o <<"'">> >>
          ELSE << <<"alternate org '">> \o status.org_name
                  \o <<"' with id '", status.org_id, "'">> >>
     ELSE <<>>)
    \o (IF status.trial_status THEN << <<"trial">> >> ELSE <<>>)
    \o (IF status.over_quota /\ ContainsGpt4(top_model_name)
        THEN << <<"has ", top_model_name>> >> ELSE <<>>)

\* ", ".join(addons)
RECURSIVE Join(_)
Join(addons) ==
    IF addons = <<>> THEN <<>>
    ELSE IF Len(addons) = 1 THEN Head(addons)
    ELSE Head(addons) \o <<", ">> \o Join(Tail(addons))

\* lines 155-169: the text handed to outfile.write
OutputLine(status, top_model_name) ==
    LET addons == Addons(status, top_model_name)
    IN  <<status.key_string>>
        \o (IF addons # <<>> THEN <<" (">> \o Join(addons) \o <<")">> ELSE <<>>)
        \o <<"\n">>

\* a destination that forgets the over_quota file
DestinationByModelOnly(status, top_model_name) == top_model_name

\* line 154
Destination(status, top_model_name) ==
    IF status.over_quota THEN "over_quota" ELSE top_model_name

\* a write that leaves the line unterminated
write_key_to_fileUnterminated(handles, status, top_model_name) ==
    LET d == Destination(status, top_model_name)
        output == OutputLine(status, top_model_name)
    IN  [handles EXCEPT ![d] = @ \o SubSeq(output, 1, Len(output) - 1)]

\* write_key_to_file: the file handles after the write and flush
write_key_to_file(handles, status, top_model_name) ==
    LET d == Destination(status, top_model_name)
    IN  [handles EXCEPT ![d] = @ \o OutputLine(status, top_model_name)]

(* ---------- the answers of the network ---------- *)
\* one record shape for the answers of the three endpoints
Answer(call, status, orgs, models, body, header) ==
    [call |-> call, status |-> status, orgs |-> orgs, models |-> models,
     body |-> body, header |-> header]

NoBody == [kind |-> "object", type |-> ""]

NoHeader == [present |-> FALSE, numeric |-> FALSE, value |-> 0]

NoAnswer == Answer("none", 0, <<>>, <<>>, NoBody, NoHeader)

\* a request that ended without an answer (aiohttp.ClientError)
FailedRequest(call) == Answer(call, 0, <<>>, <<>>, NoBody, NoHeader)

\* status codes of the two listing endpoints
ListStatusCodes == {200, 401}

OrgsAnswer(s, o) == Answer("get_orgs", s, o, <<>>, NoBody, NoHeader)

ModelsAnswer(s, m) == Answer("get_models", s, <<>>, m, NoBody, NoHeader)

CompletionAnswer(r) == Answer("try_completion", r.status, <<>>, <<>>, r.body, r.header)

OrgsAnswers == {OrgsAnswer(s, o) : s \in ListStatusCodes, o \in OrgLists}

ModelsAnswers == {ModelsAnswer(s, m) : s \in ListStatusCodes, m \in RawModelLists}

CompletionAnswers == {CompletionAnswer(r) : r \in CompletionResponses}

\* the answers drawn while several credentials are scanned at once: one for
\* each way get_orgs, get_models and try_completion end
ScanOrgsAnswers == {OrgsAnswer(401, <<OrgPersonal>>),
                    OrgsAnswer(200, <<OrgDefaultNamed, OrgAlternate>>)}

ScanModelsAnswers == {ModelsAnswer(401, <<"gpt-3.5-turbo">>),
                      ModelsAnswer(200, <<"gpt-4", "davinci", "gpt-3.5-turbo">>)}

ScanCompletionAnswers ==
    {CompletionAnswer([status |-> 401, header |-> NoHeader,
                       body |-> [kind |-> "object", type |-> "invalid_request_error"]]),
     CompletionAnswer([status |-> 429, body |-> NoBody,
                       header |-> [present |-> TRUE, numeric |-> TRUE, value |-> 3500]]),
     CompletionAnswer([status |-> 429, header |-> NoHeader,
                       body |-> [kind |-> "object", type |-> "insufficient_quota"]]),
     CompletionAnswer([status |-> 200, header |-> NoHeader,
                       body |-> [kind |-> "nonjson", type |-> ""]])}

\* get_orgs, lines 148-151
get_orgs(answer) == IF answer.status # 200 THEN <<>> ELSE answer.orgs

\* a listing that takes the capabilities of any answer, whatever its status
get_modelsIgnoringStatus(answer) == FilterAndSortModels(answer.models)

\* get_models, lines 91-96
get_models(answer) ==
    IF answer.status # 200 THEN <<>> ELSE FilterAndSortModels(answer.models)

(* ---------- state ---------- *)
VARIABLES
    keys,              \* KeyScanner.keys: the candidate credentials, one task each
    max_requests,      \* the value the semaphore was created with
    sem_value,         \* KeyScanner.sem._value: the free slots
    sem_waiters,       \* KeyScanner.sem._waiters: tasks waiting for a slot, FIFO
    pc,                \* where each check_key task is
    orgs,              \* check_key's orgs
    org_idx,           \* position of "for org in orgs"
    status,            \* check_key's status, the Key of the current organization
    top_model_name,    \* check_key's top_model_name
    result,            \* check_key's result
    retval,            \* what check_key returned: "pending", "None" or "result"
    last_answer,       \* the last answer each task received from the network
    file_handles,      \* text written to each of KeyScanner.file_handles
    scan_state,        \* "created", "gathering", "returned" or "raised"
    main_state,        \* "scanning", "cancelling", "crashed" or "summary"
    model_key_counts,  \* main's model_key_counts
    total_good_keys    \* main's total_good_keys

vars == <<keys, max_requests, sem_value, sem_waiters, pc, orgs, org_idx, status,
          top_model_name, result, retval, last_answer, file_handles, scan_state, main_state,
          model_key_counts, total_good_keys>>

Tasks == 1..Len(keys)

NoKey == NewKey("", <<>>)

\* the states in which a task is between __aenter__ and __aexit__ of self.sem
InSectionStates == {"woken", "get_orgs", "get_models", "try_completion", "cancel_admitted"}

\* the states in which a task has an HTTP request outstanding
NetworkStates == {"get_orgs", "get_models", "try_completion"}

FinishedStates == {"done", "raised", "cancelled"}

InSection == {t \in Tasks : pc[t] \in InSectionStates}

Outstanding == {t \in Tasks : pc[t] \in NetworkStates}

AllStarted == \A t \in Tasks : pc[t] # "new"

(* ---------- main, lines 180-188, and KeyScanner.__init__ ---------- *)
InitFor(files, requests) ==
    /\ \E file \in files : \E lines \in ListOfSet(file) : keys = ExtractKeys(lines)
    /\ max_requests \in requests
    /\ sem_value = max_requests
    /\ sem_waiters = <<>>
    /\ pc = [t \in Tasks |-> "new"]
    /\ orgs = [t \in Tasks |-> <<>>]
    /\ org_idx = [t \in Tasks |-> 0]
    /\ status = [t \in Tasks |-> NoKey]
    /\ top_model_name = [t \in Tasks |-> ""]
    /\ result = [t \in Tasks |-> <<>>]
    /\ retval = [t \in Tasks |-> "pending"]
    /\ last_answer = [t \in Tasks |-> NoAnswer]
    /\ file_handles = [d \in Destinations |-> <<>>]
    /\ scan_state = "created"
    /\ main_state = "scanning"
    /\ model_key_counts = [m \in Models |-> 0]
    /\ total_good_keys = 0

Init == InitFor(InputFiles, 1..MaxRequestsBound)

(* ---------- asyncio.Semaphore ---------- *)
\* a semaphore that admits whenever nobody is queued, whatever its value
LockedIgnoringValue(value, waiters) == waiters # <<>>

\* Semaphore.locked(): no free slot, or somebody is already waiting
Locked(value, waiters) == value = 0 \/ waiters # <<>>

\* a release that forgets to give the slot back
ReleasedValueLeaking(value, waiters) == value

\* Semaphore.release(): the slot goes to the first waiter, else it is free again
ReleasedValue(value, waiters) == IF waiters = <<>> THEN value + 1 ELSE value

\* task t leaves "async with self.sem" and ends in state p
Leave(t, p) ==
    /\ sem_value' = ReleasedValue(sem_value, sem_waiters)
    /\ IF sem_waiters = <<>>
       THEN /\ sem_waiters' = sem_waiters
            /\ pc' = [pc EXCEPT ![t] = p]
       ELSE /\ sem_waiters' = Tail(sem_waiters)
            /\ pc' = [pc EXCEPT ![t] = p, ![Head(sem_waiters)] = "woken"]

(* ---------- KeyScanner.scan ---------- *)
\* line 49-50: the tasks are created and gathered
Scan ==
    /\ scan_state = "created"
    /\ scan_state' = "gathering"
    /\ UNCHANGED <<top_model_name, keys, max_requests, sem_value, sem_waiters, pc, orgs, org_idx,
                   status, result, retval, last_answer, file_handles, main_state,
                   model_key_counts, total_good_keys>>

(* ---------- KeyScanner.check_key ---------- *)
\* lines 52-58: the task's first step, in creation order: it takes a slot and
\* calls get_orgs, or queues up for a slot
Start(t) ==
    /\ scan_state = "gathering"
    /\ pc[t] = "new"
    /\ \A u \in Tasks : u < t => pc[u] # "new"
    /\ IF ~Locked(sem_value, sem_waiters)
       THEN /\ sem_value' = sem_value - 1
            /\ sem_waiters' = sem_waiters
            /\ pc' = [pc EXCEPT ![t] = "get_orgs"]
       ELSE /\ sem_value' = sem_value
            /\ sem_waiters' = Append(sem_waiters, t)
            /\ pc' = [pc EXCEPT ![t] = "waiting"]
    /\ UNCHANGED <<top_model_name, keys, max_requests, orgs, org_idx, status, result, retval,
                   last_answer, file_handles, scan_state, main_state,
                   model_key_counts, total_good_keys>>

\* lines 54-58: a task that was handed a slot resumes and calls get_orgs
Admitted(t) ==
    /\ pc[t] = "woken"
    /\ pc' = [pc EXCEPT ![t] = "get_orgs"]
    /\ UNCHANGED <<top_model_name, keys, max_requests, sem_value, sem_waiters, orgs, org_idx, status,
                   result, retval, last_answer, file_handles, scan_state, main_state,
                   model_key_counts, total_good_keys>>

\* lines 58-67: get_orgs answers; without organizations the task returns None,
\* else it asks for the models of the first organization
GetOrgsAnswer(t, answer) ==
    /\ last_answer' = [last_answer EXCEPT ![t] = answer]
    /\ orgs' = [orgs EXCEPT ![t] = get_orgs(answer)]
    /\ IF get_orgs(answer) = <<>>
       THEN /\ Leave(t, "done")
            /\ retval' = [retval EXCEPT ![t] = "None"]
            /\ org_idx' = org_idx
       ELSE /\ pc' = [pc EXCEPT ![t] = "get_models"]
            /\ org_idx' = [org_idx EXCEPT ![t] = 1]
            /\ UNCHANGED <<sem_value, sem_waiters, retval>>
    /\ UNCHANGED <<top_model_name, keys, max_requests, status, result, file_handles, scan_state,
                   main_state, model_key_counts, total_good_keys>>

\* lines 62-67 and 86: the loop moves to the next organization and calls
\* get_models, or the task returns result
NextOrg(t) ==
    IF org_idx[t] < Len(orgs[t])
    THEN /\ org_idx' = [org_idx EXCEPT ![t] = @ + 1]
         /\ pc' = [pc EXCEPT ![t] = "get_models"]
         /\ UNCHANGED <<sem_value, sem_waiters, retval>>
    ELSE /\ Leave(t, "done")
         /\ retval' = [retval EXCEPT ![t] = "result"]
         /\ org_idx' = org_idx

\* lines 67-78: get_models answers; without models the organization is skipped,
\* else the Key is built and the completion probe is sent
GetModelsAnswer(t, answer) ==
    /\ last_answer' = [last_answer EXCEPT ![t] = answer]
    /\ LET models == get_models(answer)
           org == orgs[t][org_idx[t]]
       IN  IF models = <<>>
           THEN /\ NextOrg(t)
                /\ UNCHANGED <<status, top_model_name>>
           ELSE /\ status' = [status EXCEPT ![t] =
                       [NewKey(keys[t], models) EXCEPT !.org_default = org.is_default,
                                                       !.org_name = org.name,
                                                       !.org_id = org.id]]
                /\ top_model_name' = [top_model_name EXCEPT ![t] = top_model(models)]
                /\ pc' = [pc EXCEPT ![t] = "try_completion"]
                /\ UNCHANGED <<sem_value, sem_waiters, retval, org_idx>>
    /\ UNCHANGED <<keys, max_requests, orgs, result, file_handles, scan_state,
                   main_state, model_key_counts, total_good_keys>>

\* line 80
IsActionable(key) == key.working \/ key.over_quota

\* lines 78-86: the completion probe answers; try_completion raises, or the
\* Key is classified, written and appended when actionable, and the loop goes on
TryCompletionAnswer(t, answer) ==
    /\ last_answer' = [last_answer EXCEPT ![t] = answer]
    /\ LET classified == try_completion(status[t], top_model_name[t], answer)
       IN  IF CompletionRaises(answer)
           THEN /\ Leave(t, "raised")
                /\ UNCHANGED <<status, result, file_handles, retval, org_idx>>
           ELSE /\ status' = [status EXCEPT ![t] = classified]
                /\ IF IsActionable(classified)
                   THEN /\ file_handles' =
                              write_key_to_file(file_handles, classified, top_model_name[t])
                        /\ result' = [result EXCEPT ![t] = Append(@, classified)]
                   ELSE UNCHANGED <<file_handles, result>>
                /\ NextOrg(t)
    /\ UNCHANGED <<top_model_name, keys, max_requests, orgs, scan_state, main_state,
                   model_key_counts, total_good_keys>>

\* the three suspension points of check_key: the call in flight is answered
\* with one of the answers the endpoint can give
GetOrgs(t, answers) ==
    /\ AllStarted
    /\ pc[t] = "get_orgs"
    /\ \E answer \in answers : GetOrgsAnswer(t, answer)

GetModels(t, answers) ==
    /\ pc[t] = "get_models"
    /\ \E answer \in answers : GetModelsAnswer(t, answer)

TryCompletion(t, answers) ==
    /\ pc[t] = "try_completion"
    /\ \E answer \in answers : TryCompletionAnswer(t, answer)

\* an HTTP request fails (aiohttp.ClientError): the exception leaves check_key
\* through "async with self.sem"
NetworkError(t) ==
    /\ AllStarted
    /\ pc[t] \in NetworkStates
    /\ last_answer' = [last_answer EXCEPT ![t] = FailedRequest(pc[t])]
    /\ Leave(t, "raised")
    /\ UNCHANGED <<top_model_name, keys, max_requests, orgs, org_idx, status, result, retval,
                   file_handles, scan_state, main_state,
                   model_key_counts, total_good_keys>>

(* ---------- asyncio.gather and asyncio.run ---------- *)
\* line 50: gather returns once every task has returned
ScanReturn ==
    /\ scan_state = "gathering"
    /\ \A t \in Tasks : pc[t] = "done"
    /\ scan_state' = "returned"
    /\ UNCHANGED <<top_model_name, keys, max_requests, sem_value, sem_waiters, pc, orgs, org_idx,
                   status, result, retval, last_answer, file_handles, main_state,
                   model_key_counts, total_good_keys>>

\* line 50: gather passes on the first exception of a task, scan raises it
ScanRaise ==
    /\ scan_state = "gathering"
    /\ \E t \in Tasks : pc[t] = "raised"
    /\ scan_state' = "raised"
    /\ UNCHANGED <<top_model_name, keys, max_requests, sem_value, sem_waiters, pc, orgs, org_idx,
                   status, result, retval, last_answer, file_handles, main_state,
                   model_key_counts, total_good_keys>>

\* the state a task is in once its cancellation was requested
CancelState(p) ==
    IF p \in FinishedStates THEN p
    ELSE IF p \in InSectionStates THEN "cancel_admitted"
    ELSE "cancel_waiting"

\* line 190: asyncio.run ends with an exception and cancels the tasks left
CancelAll ==
    /\ scan_state = "raised"
    /\ main_state = "scanning"
    /\ main_state' = "cancelling"
    /\ pc' = [t \in Tasks |-> CancelState(pc[t])]
    /\ sem_waiters' = <<>>
    /\ UNCHANGED <<top_model_name, keys, max_requests, sem_value, orgs, org_idx, status, result,
                   retval, last_answer, file_handles, scan_state,
                   model_key_counts, total_good_keys>>

\* CancelledError is thrown into a task: it gives back the slot it holds
TaskCancelled(t) ==
    /\ pc[t] \in {"cancel_admitted", "cancel_waiting"}
    /\ IF pc[t] = "cancel_admitted"
       THEN Leave(t, "cancelled")
       ELSE /\ pc' = [pc EXCEPT ![t] = "cancelled"]
            /\ UNCHANGED <<sem_value, sem_waiters>>
    /\ UNCHANGED <<top_model_name, keys, max_requests, orgs, org_idx, status, result, retval,
                   last_answer, file_handles, scan_state, main_state,
                   model_key_counts, total_good_keys>>

\* line 190: the exception of scan leaves main, nothing more is printed
MainRaise ==
    /\ main_state = "cancelling"
    /\ \A t \in Tasks : pc[t] \in FinishedStates
    /\ main_state' = "crashed"
    /\ UNCHANGED <<top_model_name, keys, max_requests, sem_value, sem_waiters, pc, orgs, org_idx,
                   status, result, retval, last_answer, file_handles, scan_state,
                   model_key_counts, total_good_keys>>

(* ---------- main, lines 190-224 ---------- *)
\* line 190: iterating a None key_result raises TypeError
FlattenRaises(n) == \E t \in 1..n : retval[t] = "None"

\* line 190: [key for key_result in ... for key in key_result]
RECURSIVE Flatten(_)
Flatten(n) == IF n = 0 THEN <<>> ELSE Flatten(n - 1) \o result[n]

\* a count that takes the over_quota records too
IsCountedAlways(key) == TRUE

\* line 196
IsCounted(key) == ~key.over_quota

\* lines 193-198
RECURSIVE CountKeys(_)
CountKeys(good_keys) ==
    IF good_keys = <<>> THEN [m \in Models |-> 0]
    ELSE LET key == good_keys[Len(good_keys)]
             counts == CountKeys(SubSeq(good_keys, 1, Len(good_keys) - 1))
         IN  IF IsCounted(key)
             THEN [counts EXCEPT ![top_model(key.models)] = @ + 1]
             ELSE counts

\* line 218
RECURSIVE SumCounts(_, _)
SumCounts(counts, i) ==
    IF i = 0 THEN 0 ELSE SumCounts(counts, i - 1) + counts[ModelOrder[i]]

\* lines 190-224: the results are flattened and counted, the summary is printed
Main ==
    /\ scan_state = "returned"
    /\ main_state = "scanning"
    /\ IF FlattenRaises(Len(keys))
       THEN /\ main_state' = "crashed"
            /\ UNCHANGED <<model_key_counts, total_good_keys>>
       ELSE /\ main_state' = "summary"
            /\ model_key_counts' = CountKeys(Flatten(Len(keys)))
            /\ total_good_keys' = SumCounts(CountKeys(Flatten(Len(keys))), Len(ModelOrder))
    /\ UNCHANGED <<top_model_name, keys, max_requests, sem_value, sem_waiters, pc, orgs, org_idx,
                   status, result, retval, last_answer, file_handles, scan_state>>

(* ---------- specifications ---------- *)
\* a scan of up to MaxLines lines
Next ==
    \/ Scan
    \/ \E t \in Tasks : Start(t)
    \/ \E t \in Tasks : Admitted(t)
    \/ \E t \in Tasks : GetOrgs(t, ScanOrgsAnswers)
    \/ \E t \in Tasks : GetModels(t, ScanModelsAnswers)
    \/ \E t \in Tasks : TryCompletion(t, ScanCompletionAnswers)
    \/ \E t \in Tasks : NetworkError(t)
    \/ ScanReturn
    \/ ScanRaise
    \/ CancelAll
    \/ \E t \in Tasks : TaskCancelled(t)
    \/ MainRaise
    \/ Main

Spec == Init /\ [][Next]_vars

\* the check of one credential, with every answer of the endpoints
InitProbe == InitFor({<<line>> : line \in {l \in InputLines : regex_search(l) # NoMatch}}, {1})

NextProbe ==
    \/ Scan
    \/ \E t \in Tasks : Start(t)
    \/ \E t \in Tasks : GetOrgs(t, OrgsAnswers)
    \/ \E t \in Tasks : GetModels(t, ModelsAnswers)
    \/ \E t \in Tasks : TryCompletion(t, CompletionAnswers)
    \/ \E t \in Tasks : NetworkError(t)
    \/ ScanReturn
    \/ ScanRaise
    \/ CancelAll
    \/ MainRaise
    \/ Main

SpecProbe == InitProbe /\ [][NextProbe]_vars

\* the scan in which every request is answered: no request fails in the
\* network, and the event loop runs every step that is ready
NextAnswered ==
    \/ Scan
    \/ \E t \in Tasks : Start(t)
    \/ \E t \in Tasks : Admitted(t)
    \/ \E t \in Tasks : GetOrgs(t, ScanOrgsAnswers)
    \/ \E t \in Tasks : GetModels(t, ScanModelsAnswers)
    \/ \E t \in Tasks : TryCompletion(t, ScanCompletionAnswers)
    \/ ScanReturn
    \/ ScanRaise
    \/ CancelAll
    \/ \E t \in Tasks : TaskCancelled(t)
    \/ MainRaise
    \/ Main

SpecAnswered == Init /\ [][NextAnswered]_vars /\ WF_vars(NextAnswered)

\* the scan in which the request of the first task is never answered, with
\* more candidates than slots and two slots or more
HangingTasks == {t \in Tasks : t = 1}

InitHang ==
    InitFor({file \in SeqsUpTo(InputLines, MaxLines + 1) :
                /\ Len(file) = MaxLines + 1
                /\ \A i \in 1..Len(file) : regex_search(file[i]) # NoMatch},
            {n \in 1..MaxRequestsBound : n >= 2})

NextHang ==
    \/ Scan
    \/ \E t \in Tasks : Start(t)
    \/ \E t \in Tasks : Admitted(t)
    \/ \E t \in Tasks \ HangingTasks : GetOrgs(t, ScanOrgsAnswers)
    \/ \E t \in Tasks \ HangingTasks : GetModels(t, ScanModelsAnswers)
    \/ \E t \in Tasks \ HangingTasks : TryCompletion(t, ScanCompletionAnswers)
    \/ ScanRaise
    \/ CancelAll
    \/ \E t \in Tasks : TaskCancelled(t)
    \/ MainRaise

SpecHang == InitHang /\ [][NextHang]_vars /\ WF_vars(NextHang)

\* Key.top_model on its own: a Key whose capability list is any list of model
\* ids, or the list get_models makes of it, stands at line 77 of check_key
ModelIds == Models \cup {"davinci"}

InitTopModel ==
    /\ keys = <<"sk-A">>
    /\ max_requests = Len(keys)
    /\ sem_value = 0
    /\ sem_waiters = <<>>
    /\ pc = [t \in Tasks |-> "top_model"]
    /\ orgs = [t \in Tasks |-> <<OrgPersonal>>]
    /\ org_idx = [t \in Tasks |-> Len(orgs[t])]
    /\ \E raw \in SeqsUpTo(ModelIds, MaxModels) :
          /\ last_answer = [t \in Tasks |-> ModelsAnswer(200, raw)]
          /\ \E models \in {raw, get_models(ModelsAnswer(200, raw))} :
                status = [t \in Tasks |-> NewKey(keys[t], models)]
    /\ top_model_name = [t \in Tasks |-> ""]
    /\ result = [t \in Tasks |-> <<>>]
    /\ retval = [t \in Tasks |-> "pending"]
    /\ file_handles = [d \in Destinations |-> <<>>]
    /\ scan_state = "gathering"
    /\ main_state = "scanning"
    /\ model_key_counts = [m \in Models |-> 0]
    /\ total_good_keys = 0

\* line 77: top_model_name = status.top_model()
TopModel(t) ==
    /\ pc[t] = "top_model"
    /\ top_model_name' = [top_model_name EXCEPT ![t] = top_model(status[t].models)]
    /\ pc' = [pc EXCEPT ![t] = "top_model_called"]
    /\ UNCHANGED <<keys, max_requests, sem_value, sem_waiters, orgs, org_idx, status,
                   result, retval, last_answer, file_handles, scan_state, main_state,
                   model_key_counts, total_good_keys>>

NextTopModel == \E t \in Tasks : TopModel(t)

SpecTopModel == InitTopModel /\ [][NextTopModel]_vars


(* ---------- properties ---------- *)
\* the last answer task t received is the answer to a completion probe
LastProbe(t) == last_answer[t].call = "try_completion" /\ last_answer[t].status # 0

EndsWith(text, line) ==
    /\ Len(text) >= Len(line)
    /\ SubSeq(text, Len(text) - Len(line) + 1, Len(text)) = line

\* the last text written to destination d is the line of key
WrittenTo(d, key) == EndsWith(file_handles[d], OutputLine(key, top_model(key.models)))

\* key is the last record appended to the result of task t
Appended(t, key) == result[t] # <<>> /\ result[t][Len(result[t])] = key

\* the records of task t that the summary counts
CountedRecords(t) == Cardinality({i \in 1..Len(result[t]) : ~result[t][i].over_quota})

\* C1: with a semaphore of max_requests slots, at most max_requests check_key
\* tasks are inside the guarded section, and so at most max_requests HTTP
\* requests are outstanding, however many candidates and organizations there are
C1_ConcurrencyBound ==
    /\ Cardinality(InSection) <= max_requests
    /\ Cardinality(Outstanding) <= max_requests

\* every slot is taken by an outstanding request while another candidate waits
C1_Witness ==
    /\ Cardinality(Outstanding) = max_requests
    /\ \E t \in Tasks : pc[t] = "waiting"
    /\ \E t \in Tasks : pc[t] = "get_models" /\ org_idx[t] = 2

\* C2: an exception inside one credential's check_key does not abort the
\* scan: scan does not raise and main does not end without the summary
C2_FailuresContained ==
    (\E t \in Tasks : pc[t] = "raised") =>
        /\ scan_state # "raised"
        /\ main_state \notin {"cancelling", "crashed"}

\* C3: a credential whose organization listing answers with a non-200 status
\* is omitted without an error: nothing is written or returned for it, its
\* task does not raise, and the run ends without the summary only when some
\* task raised
C3_Non200Omitted ==
    \A t \in Tasks :
        (last_answer[t].call = "get_orgs" /\ last_answer[t].status \notin {0, 200}) =>
            /\ pc[t] # "raised"
            /\ result[t] = <<>>
            /\ main_state = "crashed" => \E u \in Tasks : pc[u] = "raised"

\* C4: the candidate list holds every credential string at most once, so one
\* check_key task is started per distinct credential
C4_CandidatesUnique ==
    \A i, j \in 1..Len(keys) : i # j => keys[i] # keys[j]

C5_Accepted(answer) ==
    /\ answer.body.kind = "object"
    /\ answer.body.type \notin {"billing_not_active", "access_terminated", "insufficient_quota"}
    /\ ~answer.header.present \/ answer.header.numeric

C6_InsufficientQuota ==
    \A t \in Tasks :
        (LastProbe(t) /\ last_answer[t].body.type = "insufficient_quota") =>
            /\ status[t].over_quota /\ ~status[t].working
            /\ WrittenTo("over_quota", status[t])
            /\ \A m \in Models : ~WrittenTo(m, status[t])
            /\ main_state = "summary" => total_good_keys = CountedRecords(t)

\* C6 amended: the same, for a probe whose status is not 401
C6_InsufficientQuotaUnless401 ==
    \A t \in Tasks :
        (/\ LastProbe(t) /\ last_answer[t].body.type = "insufficient_quota"
         /\ last_answer[t].status # 401) =>
            /\ pc[t] # "raised"
            /\ status[t].over_quota /\ ~status[t].working
            /\ WrittenTo("over_quota", status[t])
            /\ \A m \in Models : ~WrittenTo(m, status[t])
            /\ Appended(t, status[t])
            /\ main_state = "summary" =>
                  /\ total_good_keys = CountedRecords(t)
                  /\ total_good_keys < Len(result[t])

\* the summary was printed after an over-quota record and a working one
C6_Witness ==
    \E t \in Tasks :
        /\ LastProbe(t) /\ last_answer[t].body.type = "insufficient_quota"
        /\ last_answer[t].status = 429
        /\ main_state = "summary" /\ total_good_keys = 1 /\ Len(result[t]) = 2

\* C7: after a completion probe answered with status 401 the credential is
\* discarded quietly whatever the body is: the task does not raise, the record
\* is neither working nor over quota, and nothing is appended or written
C7_Status401Discarded ==
    \A t \in Tasks :
        (LastProbe(t) /\ last_answer[t].status = 401) =>
            /\ pc[t] # "raised"
            /\ ~status[t].working /\ ~status[t].over_quota
            /\ ~Appended(t, status[t])

\* C8: a completion probe whose body is not JSON is classified as one without
\* an error type: try_completion does not raise, the rate limit is recorded
\* and working is decided by the status code alone
C8_MalformedBodyFallsThrough ==
    \A t \in Tasks :
        (LastProbe(t) /\ last_answer[t].body.kind = "nonjson"
         /\ last_answer[t].status # 401 /\ ~RateLimitRaises(last_answer[t])) =>
            /\ pc[t] # "raised"
            /\ status[t].ratelimit = ratelimit_of(last_answer[t])
            /\ status[t].working = (last_answer[t].status = 429)

\* C9: the trial flag is set exactly when the classification reached the
\* rate-limit step and the header is present and below the ceiling of the top
\* capability; a written record with the flag has "trial" in its line
C9_TrialExactly ==
    \A t \in Tasks :
        (LastProbe(t) /\ pc[t] # "raised") =>
            /\ status[t].trial_status =
                  (/\ ReachesRateLimitStep(last_answer[t])
                   /\ last_answer[t].header.present
                   /\ last_answer[t].header.numeric
                   /\ last_answer[t].header.value
                        < RATE_LIMIT_PER_MODEL[top_model(status[t].models)])
            /\ (status[t].trial_status /\ IsActionable(status[t])) =>
                  SeqContains(OutputLine(status[t], top_model(status[t].models)), "trial")

\* C10: every task that took a slot gives it back once on every way out, so
\* the free slots and the tasks holding one always add up to max_requests
C10_SlotsConserved ==
    /\ sem_value >= 0
    /\ sem_value + Cardinality(InSection) = max_requests
    /\ (\A t \in Tasks : pc[t] \in FinishedStates) => sem_value = max_requests

\* one task left by an exception and another by cancellation while it held a
\* slot it had been handed by a leaving task
C10_Witness ==
    /\ max_requests = 1
    /\ sem_value = max_requests
    /\ \E t, u \in Tasks : pc[t] = "raised" /\ pc[u] = "cancelled" /\ orgs[u] # <<>>

\* main has finished, with the summary or with an exception
MainFinished == main_state \in {"crashed", "summary"}

\* C11: when every request is answered, every submitted check_key task is
\* admitted and finishes and scan() returns: a run that has ended has a scan
\* that returned with every task run to completion
C11_ScanRunsToCompletion ==
    MainFinished =>
        /\ scan_state = "returned"
        /\ \A t \in Tasks : pc[t] = "done"

\* when every request is answered the run always ends
C11_RunEnds == <>MainFinished


\* C12: with two slots or more and one check_key hanging forever in a request,
\* the hanging task holds one slot and every other submitted task is admitted
\* and finishes: no other task is cancelled before it has finished
C12_OthersFinish ==
    /\ Cardinality(InSection \cap HangingTasks) <= 1
    /\ \A t \in Tasks \ HangingTasks :
          pc[t] \notin {"cancel_waiting", "cancel_admitted", "cancelled"}

\* C13: scan() is a barrier: in every state where scan() has finished, by
\* returning or by raising to main, no check_key task is still running, waiting
\* for a slot or suspended in a request
C13_ScanIsBarrier ==
    scan_state \in {"returned", "raised"} =>
        \A t \in Tasks : pc[t] \in FinishedStates

\* the text of a file cut after every line terminator
RECURSIVE LinesFrom(_, _, _)
LinesFrom(text, start, i) ==
    IF i > Len(text)
    THEN IF start > Len(text) THEN <<>> ELSE <<SubSeq(text, start, Len(text))>>
    ELSE IF text[i] = "\n"
         THEN <<SubSeq(text, start, i)>> \o LinesFrom(text, i + 1, i + 1)
         ELSE LinesFrom(text, start, i + 1)

LinesOf(text) == LinesFrom(text, 1, 1)

\* the records of the tasks that belong in destination d, as <<task, index>>
RecordsFor(d) ==
    UNION {{<<t, i>> : i \in {j \in 1..Len(result[t]) :
                                Destination(result[t][j], top_model(result[t][j].models)) = d}} :
           t \in Tasks}

\* every output file is a sequence of whole lines, one for each record kept
\* by a task and nothing else
C14_FilesAreRecordLines ==
    \A d \in Destinations :
        LET lines == LinesOf(file_handles[d])
        IN  /\ \A i \in 1..Len(lines) :
                  /\ lines[i][Len(lines[i])] = "\n"
                  /\ \E ti \in RecordsFor(d) :
                        LET key == result[ti[1]][ti[2]]
                        IN  lines[i] = OutputLine(key, top_model(key.models))
            /\ Len(lines) = Cardinality(RecordsFor(d))

\* C14: a write to a shared output file is atomic with respect to the other
\* tasks: a step that changes a file appends the whole line of the one record
\* that one task keeps in that step and changes no other file, so every output
\* file ends at all times with a complete line
C14_WritesAtomic ==
    /\ [](\A d \in Destinations :
            file_handles[d] = <<>> \/ file_handles[d][Len(file_handles[d])] = "\n")
    /\ [][\A d \in Destinations :
            file_handles'[d] # file_handles[d] =>
                \E t \in Tasks :
                    /\ result'[t] = Append(result[t], status'[t])
                    /\ d = (IF status'[t].over_quota THEN "over_quota"
                            ELSE top_model_name[t])
                    /\ file_handles'[d] =
                          file_handles[d] \o OutputLine(status'[t], top_model_name[t])
                    /\ \A e \in Destinations \ {d} : file_handles'[e] = file_handles[e]
                    /\ \A u \in Tasks \ {t} : result'[u] = result[u]]_vars

\* two tasks have written to the same file while both were in flight
C14_Witness ==
    \E d \in Destinations : \E t1, t2 \in Tasks :
        /\ t1 # t2
        /\ Len(LinesOf(file_handles[d])) >= 2
        /\ \E i \in 1..Len(result[t1]) : <<t1, i>> \in RecordsFor(d)
        /\ \E i \in 1..Len(result[t2]) : <<t2, i>> \in RecordsFor(d)
        /\ pc[t1] \in NetworkStates
        /\ pc[t2] \in NetworkStates

\* the capability listing of the current organization of task t has been
\* answered with status 200 and at least one capability of the table
ListedKnownCapability(t) ==
    /\ last_answer[t].call = "get_models"
    /\ last_answer[t].status = 200
    /\ \E i \in 1..Len(last_answer[t].models) : last_answer[t].models[i] \in Models

\* C15: the completion probe of an organization is issued only after the
\* capability listing of that organization has been answered, and only when it
\* gave at least one capability of the table; an empty list gets no probe; the
\* list/probe pairs of the organizations of one credential follow one another
\* inside the same slot
C15_ListThenProbe ==
    /\ [](\A t \in Tasks :
            pc[t] = "try_completion" =>
                /\ ListedKnownCapability(t)
                /\ status[t].models # <<>>
                /\ status[t].org_id = orgs[t][org_idx[t]].id
                /\ t \in InSection)
    /\ [][\A t \in Tasks :
            /\ (pc'[t] = "try_completion" /\ pc[t] # "try_completion") =>
                   pc[t] = "get_models"
            /\ (pc[t] = "get_models" /\ pc'[t] # "get_models"
                /\ last_answer'[t].status # 0 /\ ~ListedKnownCapability(t)') =>
                   pc'[t] # "try_completion"
            /\ (org_idx[t] >= 1 /\ org_idx'[t] # org_idx[t]) =>
                   /\ pc[t] \in {"get_models", "try_completion"}
                   /\ pc'[t] = "get_models"
                   /\ org_idx'[t] = org_idx[t] + 1
                   /\ sem_value' = sem_value
                   /\ sem_waiters' = sem_waiters]_vars

\* the second organization of a credential is probed after the first one was
\* listed and probed, and an organization without a known capability was skipped
C15_Witness ==
    \E t \in Tasks :
        /\ pc[t] = "try_completion"
        /\ org_idx[t] = 2
        /\ result[t] # <<>>

C15_WitnessSkipped ==
    \E t \in Tasks :
        /\ pc[t] = "get_models"
        /\ org_idx[t] = 2
        /\ last_answer[t].call = "get_models"
        /\ last_answer[t].status = 200
        /\ last_answer[t].models # <<>>

\* the number of lines in all the output files
RECURSIVE LinesWritten(_)
LinesWritten(ds) ==
    IF ds = {} THEN 0
    ELSE LET d == CHOOSE x \in ds : TRUE
         IN  Len(LinesOf(file_handles[d])) + LinesWritten(ds \ {d})

\* the answers of the completion probe after which a record is kept
C16_Kept(answer) ==
    /\ answer.status # 401
    /\ answer.body.type \notin {"billing_not_active", "access_terminated"}
    /\ \/ answer.body.type = "insufficient_quota"
       \/ answer.status = 429
       \/ answer.status = 400 /\ answer.body.type = "invalid_request_error"

\* after its completion probe a record is written and appended to result if
\* and only if working or over_quota is true, once, to the over_quota file if
\* over_quota and else to the file of its top capability; every other answer
\* leaves both flags false
C16_WrittenAndAppended ==
    \A t \in Tasks :
        /\ (LastProbe(t) /\ pc[t] # "raised") =>
              /\ Appended(t, status[t]) <=> (status[t].working \/ status[t].over_quota)
              /\ (status[t].working \/ status[t].over_quota) <=> C16_Kept(last_answer[t])
              /\ (status[t].working \/ status[t].over_quota) =>
                    WrittenTo(IF status[t].over_quota THEN "over_quota"
                              ELSE status[t].models[Len(status[t].models)], status[t])
        /\ LinesWritten(Destinations) = Len(result[t])
        /\ \A i, j \in 1..Len(result[t]) : result[t][i] = result[t][j] => i = j

\* C16: a record is written and returned if and only if, after its completion
\* probe, working or over_quota is true, and then it is written once, to the
\* over_quota file if over_quota and else to the file of its top capability:
\* when check_key has ended, the records it has written are the ones it returns
C16_WrittenAndReturned ==
    /\ C16_WrittenAndAppended
    /\ \A t \in Tasks :
          (pc[t] \in FinishedStates /\ result[t] # <<>>) => retval[t] = "result"

\* the position of a capability in the priority table
Rank(m) == CHOOSE i \in 1..Len(ModelOrder) : ModelOrder[i] = m

\* the entries of the priority table in a capability list
KnownIn(models) == {models[i] : i \in 1..Len(models)} \cap Models

\* C17: top_model returns the entry of the capability list that ranks highest
\* in the priority table, whatever the order of the list, and the empty string
\* when the list has no entry of the table; for a list made by get_models it is
\* a key of the table, so the lookups of the ceiling and of the destination by
\* top capability are defined
C17_TopModelHighest ==
    \A t \in Tasks :
        pc[t] = "top_model_called" =>
            LET models == status[t].models
                top == top_model_name[t]
            IN  /\ KnownIn(models) = {} => top = ""
                /\ KnownIn(models) # {} =>
                      /\ top \in KnownIn(models)
                      /\ \A m \in KnownIn(models) : Rank(m) <= Rank(top)
                /\ (models # <<>> /\ models = get_models(last_answer[t])) =>
                      /\ top \in DOMAIN RATE_LIMIT_PER_MODEL
                      /\ top \in DOMAIN file_handles

\* top_model has answered for a list whose highest entry is not its last one
C17_Witness ==
    \E t \in Tasks :
        /\ pc[t] = "top_model_called"
        /\ Len(status[t].models) >= 2
        /\ status[t].models[Len(status[t].models)] \in Models
        /\ status[t].models[Len(status[t].models)] # top_model_name[t]

\* every record of the run: the Key each task is working on and the ones it keeps
Records ==
    {status[t] : t \in Tasks} \cup UNION {{result[t][i] : i \in 1..Len(result[t])} : t \in Tasks}

\* C18: for every record, working and over_quota are never both true, and a
\* record with over_quota has trial_status false and its rate limit at the
\* initial value, the rate-limit header not being read for it
C18_OverQuotaExclusive ==
    \A key \in Records :
        /\ ~(key.working /\ key.over_quota)
        /\ key.over_quota =>
              /\ ~key.trial_status
              /\ key.ratelimit = NewKey(key.key_string, key.models).ratelimit

\* a record is over_quota after an answer with status 429 and a rate-limit
\* header below the ceiling of its top capability
C18_Witness ==
    \E t \in Tasks :
        /\ LastProbe(t)
        /\ status[t].over_quota
        /\ Appended(t, status[t])
        /\ last_answer[t].status = 429
        /\ last_answer[t].header.present
        /\ last_answer[t].header.numeric
        /\ last_answer[t].header.value < RATE_LIMIT_PER_MODEL[top_model_name[t]]

\* C19: when the run reaches the summary, the count printed for a capability
\* is the number of lines written to its file during the scan, the total is
\* the sum of these, and the lines of the over_quota file are counted nowhere,
\* also when one credential gives several records through several organizations
C19_SummaryMatchesFiles ==
    main_state = "summary" =>
        /\ \A m \in Models : model_key_counts[m] = Len(LinesOf(file_handles[m]))
        /\ total_good_keys = LinesWritten(Models)
        /\ total_good_keys + Len(LinesOf(file_handles["over_quota"]))
              = LinesWritten(Destinations)

\* the summary is printed after a credential gave a counted record and an
\* over_quota record through two organizations
C19_Witness ==
    /\ main_state = "summary"
    /\ total_good_keys >= 1
    /\ file_handles["over_quota"] # <<>>
    /\ \E t \in Tasks :
          /\ Len(result[t]) >= 2
          /\ \E i, j \in 1..Len(result[t]) :
                result[t][i].over_quota /\ ~result[t][j].over_quota

====
